---------------------------- MODULE Spec2Model ----------------------------
(***************************************************************************)
(* Model of the map pipeline of nrsc5-gui (src/nrsc5_gui.py): the traffic  *)
(* tile assembler (process_traffic_map, check_tiles), the weather          *)
(* compositor (process_weather_overlay, make_base_map), the region         *)
(* metadata handler (process_weather_info) and the weather map cache       *)
(* (process_weather_maps).                                                 *)
(*                                                                         *)
(* Files are modelled by what the code can observe of them: whether they   *)
(* exist and which input they were produced from.  An image is modelled by *)
(* the identity of the payload it was decoded from.                        *)
(***************************************************************************)
EXTENDS Integers, Sequences, FiniteSets, TLC

\* ------------------------------------------------------------------------
\* Bounds of the model
\* ------------------------------------------------------------------------

\* number of distinct traffic map generations (declared minutes) on the air
MaxGen == 2

\* number of threading.Timer objects of the map viewer that are alive (they
\* wait or their function runs) at one time
MaxTimers == 2

\* number of threading.Timer objects made for check_status that are alive at
\* one time
MaxStatus == 2

\* ------------------------------------------------------------------------
\* Time
\* ------------------------------------------------------------------------

\* 2024-01-01T00:00Z as a unix timestamp (19723 days after 1970-01-01), the
\* date of the file names used here.  All timestamps of the model are
\* ten-digit numbers, as every timestamp between 2001 and 2286 is.
Epoch == 19723 * 86400

\* int(datetime.strptime(name, "%Y%m%d_%H%M").replace(tzinfo=utc).timestamp())
\* for the file name that declares minute m of 2024-01-01
Timestamp(m) == Epoch + 60 * m

\* ------------------------------------------------------------------------
\* Traffic map: state
\* ------------------------------------------------------------------------

VARIABLES
    map_tiles,      \* self.map_tiles[i][j]: timestamp of the tile at row i, column j
    traffic_map,    \* self.traffic_map: the payload pasted at each cell of the canvas
    traffic_png,    \* TRUE when map/traffic_map.png has been written
    traffic_out     \* what the last call of process_traffic_map did

traffic_vars == <<map_tiles, traffic_map, traffic_png, traffic_out>>

\* the rows and the columns of the grid, range(3)
TileRange == 0..2

\* the canvas cell of a tile that was never pasted: Image.new("RGB", (600, 600), "white")
White == <<"white">>

\* a payload that Image.open cannot decode
BadData == <<"bad">>

\* the declared minutes of the traffic fragments on the air
TrafficMinutes == 1..MaxGen

\* the tile picture broadcast for the generation with timestamp ts
TilePicture(ts) == <<"tile", ts>>

\* the positions (row, column as declared in the file name) whose fragments
\* reach the program with undecodable bytes at times.  process_traffic_map
\* treats the nine positions alike, so one position stands for any.
CorruptPositions == {<<2, 3>>}

\* the payloads a fragment for a position, of the generation with timestamp
\* ts, can carry: the tile picture of that generation or undecodable bytes
TilePayloads(row, col, ts) ==
    {TilePicture(ts)} \cup (IF <<row, col>> \in CorruptPositions THEN {BadData} ELSE {})

\* self.map_tiles = [[0, 0, 0], [0, 0, 0], [0, 0, 0]]
EmptyTiles == [i \in TileRange |-> [j \in TileRange |-> 0]]

\* self.traffic_map = Image.new("RGB", (600, 600), "white")
BlankCanvas == [i \in TileRange |-> [j \in TileRange |-> White]]

TrafficInit ==
    /\ map_tiles = EmptyTiles
    /\ traffic_map = BlankCanvas
    /\ traffic_png = FALSE
    /\ traffic_out = "none"

\* check_tiles with the loop over the columns cut short by one
check_tiles_short(tiles, timestamp) ==
    \A i \in TileRange : \A j \in 0..1 : tiles[i][j] = timestamp

\* check_tiles(timestamp): every entry of the grid equals timestamp
check_tiles(tiles, timestamp) ==
    \A i \in TileRange : \A j \in TileRange : tiles[i][j] = timestamp

\* the guard of process_traffic_map with the two indices exchanged
tile_loaded_swapped(tiles, tile_x, tile_y, timestamp) ==
    tiles[tile_y][tile_x] = timestamp

\* the guard of process_traffic_map: the tile has already been loaded
tile_loaded(tiles, tile_x, tile_y, timestamp) ==
    tiles[tile_x][tile_y] = timestamp

\* a store that keeps the newer of the two timestamps
store_tile_newest(tiles, tile_x, tile_y, timestamp) ==
    [tiles EXCEPT ![tile_x][tile_y] =
         IF tiles[tile_x][tile_y] > timestamp THEN tiles[tile_x][tile_y] ELSE timestamp]

\* self.map_tiles[tile_x][tile_y] = timestamp
store_tile(tiles, tile_x, tile_y, timestamp) ==
    [tiles EXCEPT ![tile_x][tile_y] = timestamp]

\* self.map_tiles after process_traffic_map for a file name that declares
\* row, col and minute m: the guard returns, or the timestamp is stored
\* (before Image.open, so whatever the payload)
grid_after(tiles, row, col, m) ==
    IF tile_loaded(tiles, row - 1, col - 1, Timestamp(m))
    THEN tiles
    ELSE store_tile(tiles, row - 1, col - 1, Timestamp(m))

\* self.traffic_map.paste(image, (tile_y*200, tile_x*200))
paste(canvas, tile_x, tile_y, image) ==
    [canvas EXCEPT ![tile_x][tile_y] = image]

\* ------------------------------------------------------------------------
\* Weather map: state
\* ------------------------------------------------------------------------

VARIABLES
    map_data,       \* self.map_data: weather_time, weather_pos, weather_now, weather_id
    weather_maps,   \* self.weather_maps: the list of weather map files
    weather_png,    \* the files map/weather_map_<id>_<timestamp>.png: path -> radar payload
    base_map_png,   \* the files map/base_map_<id>.png: id -> what the file was made from
    map_file,       \* os.path.isfile(self.MAP_FILE): the world mosaic map.png is present
    now,            \* time.time()
    undeletable,    \* the weather map files on which os.remove raises OSError
    weather_out     \* what the last call of a weather handler did

weather_vars ==
    <<map_data, weather_maps, weather_png, base_map_png, map_file, now,
      undeletable, weather_out>>

\* the hours of 2024-01-01 at which the radar overlays on the air are dated
OverlayHours == {0, 2, 13}

\* the hours of 2024-01-01 at which the program is observed
ClockHours == {0, 12, 13, 14, 15}

\* the timestamp of the file name, or of the clock, at hour h
HourStamp(h) == Timestamp(60 * h)

\* remove weather maps older than 12 hours: 60*60*12
Retention == 60 * 60 * 12

\* the region ids of the model, in the order of their strings
RegionOrder == <<"LWX", "PBZ">>

\* the region whose metadata (DWRI_ file) is on the air
TrackedRegions == {"LWX"}

\* the bounding boxes (lat1, lon1, lat2, lon2) of the region metadata, in
\* whole degrees
RegionBoxes == {<<40, -79, 37, -75>>}

\* the radar pictures an overlay can carry
RadarPictures == {<<"radar", 1>>, <<"radar", 2>>}

\* the faults of the environment during one handler call: none, the disk
\* refuses the save of the weather map (OSError), the disk refuses the save
\* of the base map (OSError), Image.new refuses the size of the blank base
\* map, which make_base_map computes from the float coordinates of
\* process_weather_info (an error that is no OSError).  Whether Image.new
\* refuses depends on the imaging library: both outcomes are modelled.
Faults == {"none", "save_weather", "save_base", "blank_size"}

\* "" as a path
NoPath == <<>>

\* os.path.join("map", "weather_map_{}_{}.png".format(map_id, timestamp))
weather_map_path(map_id, timestamp) == <<map_id, timestamp>>

\* the groups of the regex of process_weather_maps on a path
path_id(file) == file[1]
path_timestamp(file) == file[2]

\* the initial map_data of __init__
InitMapData ==
    [weather_time |-> 0, weather_pos |-> <<0, 0, 0, 0>>,
     weather_now |-> NoPath, weather_id |-> ""]

\* the function with the empty domain: no file
NoFiles == [f \in {} |-> 0]

NoResult == [res |-> "none", deleted |-> {}]

WeatherInit ==
    /\ map_data = InitMapData
    /\ weather_maps = <<>>
    /\ weather_png = NoFiles
    /\ base_map_png = NoFiles
    /\ map_file \in BOOLEAN
    /\ now = HourStamp(0)
    /\ undeletable = {}
    /\ weather_out = NoResult

\* ------------------------------------------------------------------------
\* Weather map: process_weather_maps
\* ------------------------------------------------------------------------

\* the position of a region id in the order of the strings
IdRank(id) == CHOOSE k \in 1..Len(RegionOrder) : RegionOrder[k] = id

\* the order of files.sort() on the paths: the order of the strings, which
\* for ids of the model and ten-digit timestamps is by id, then by timestamp
PathLess(f, g) ==
    \/ IdRank(path_id(f)) < IdRank(path_id(g))
    \/ path_id(f) = path_id(g) /\ path_timestamp(f) < path_timestamp(g)

\* files = glob.glob("map/weather_map_*.png"); files.sort()
RECURSIVE SortedFiles(_)
SortedFiles(S) ==
    IF S = {} THEN <<>>
    ELSE LET f == CHOOSE x \in S : \A y \in S \ {x} : PathLess(x, y)
         IN <<f>> \o SortedFiles(S \ {f})

\* file in self.weather_maps
InList(list, file) == \E k \in 1..Len(list) : list[k] = file

\* self.weather_maps.index(file)
IndexOf(list, file) ==
    CHOOSE k \in 1..Len(list) : list[k] = file /\ \A l \in 1..(k - 1) : list[l] # file

\* self.weather_maps.pop(k)
Pop(list, k) == SubSeq(list, 1, k - 1) \o SubSeq(list, k + 1, Len(list))

\* now - timestamp > 60*60*12 with >= in place of >
is_old_inclusive(clock, timestamp) == clock - timestamp >= Retention

\* now - timestamp > 60*60*12
is_old(clock, timestamp) == clock - timestamp > Retention

\* the append of process_weather_maps without the test "file not in"
add_file_always(maps, file) == Append(maps, file)

\* if file not in self.weather_maps: self.weather_maps.append(file)
add_file(maps, file) == IF InList(maps, file) THEN maps ELSE Append(maps, file)

\* a loop that ends at the first os.remove that fails
after_remove_failure_abort(rest) == <<>>

\* except OSError: the failure is logged and the loop goes on with the
\* files that remain
after_remove_failure(rest) == rest

\* the loop of process_weather_maps over the sorted files, from the list
\* maps and the files disk; stuck: the files os.remove fails to remove
RECURSIVE scan_files(_, _, _, _, _)
scan_files(files, maps, disk, weather_id, stuck) ==
    IF files = <<>> THEN [maps |-> maps, disk |-> disk]
    ELSE LET file == Head(files)
             rest == Tail(files)
         IN IF is_old(now, path_timestamp(file))
            THEN LET popped == IF InList(maps, file)
                               THEN Pop(maps, IndexOf(maps, file))
                               ELSE maps
                 IN IF file \in stuck
                    THEN \* os.remove raises OSError: logged, the file stays
                         scan_files(after_remove_failure(rest), popped, disk,
                                    weather_id, stuck)
                    ELSE scan_files(rest, popped,
                                    [g \in DOMAIN disk \ {file} |-> disk[g]],
                                    weather_id, stuck)
            ELSE IF path_id(file) = weather_id
                 THEN scan_files(rest, add_file(maps, file), disk, weather_id, stuck)
                 ELSE scan_files(rest, maps, disk, weather_id, stuck)

\* process_weather_maps() on the list maps and the files disk
process_weather_maps(maps, disk, weather_id, stuck) ==
    scan_files(SortedFiles(DOMAIN disk), maps, disk, weather_id, stuck)

\* ------------------------------------------------------------------------
\* Weather map: make_base_map
\* ------------------------------------------------------------------------

\* the size of the blank image of make_base_map for pos = [lat1, lon1,
\* lat2, lon2] (pos[0..3] of the code): (pos[2]-pos[1], pos[3]-pos[1])
placeholder_size(pos) == <<pos[3] - pos[2], pos[4] - pos[2]>>

\* make_base_map(map_id, pos) on the base map files base, under a fault:
\* the files afterwards and the exception that leaves the call, if any
make_base_map(base, map_id, pos, fault) ==
    IF map_file
    THEN IF map_id \in DOMAIN base
         THEN [base |-> base, exc |-> "none"]
         ELSE IF fault = "save_base"
              THEN [base |-> base, exc |-> "OSError"]
              ELSE [base |-> (map_id :> <<"crop", pos>>) @@ base, exc |-> "none"]
    ELSE \* Map file not found: a blank image of a size computed from pos
         IF fault = "blank_size"
         THEN [base |-> base, exc |-> "Error"]
         ELSE IF fault = "save_base"
              THEN [base |-> base, exc |-> "OSError"]
              ELSE [base |-> (map_id :> <<"blank", placeholder_size(pos)>>) @@ base,
                    exc |-> "none"]

\* ------------------------------------------------------------------------
\* Map viewer (class NRSC5Map): state
\* ------------------------------------------------------------------------

VARIABLES
    map_viewer,     \* self.map_viewer and the fields of the NRSC5Map object:
                    \*   state: "none" (self.map_viewer is None), "open",
                    \*          "failed" (the constructor raised), "closing"
                    \*          (on_map_window_delete waits), "closed" (it
                    \*          has returned: self.map_viewer is None again),
                    \*          "shutting" (shutdown waits), "shut" (it has
                    \*          returned)
                    \*   config: data["viewer_config"], mode and animate
                    \*   animate_timer: the timer self.animate_timer refers to, 0 for None
                    \*   animate_busy, animate_stop, map_index
                    \*   shared, own: self.weather_maps of the viewer is the list
                    \*          object of the parent (shared) or a list object
                    \*          the parent has dropped, with the items own
                    \*   img_map: what the image widget of the window shows
    timers,         \* the threading.Timer objects made for animate: their
                    \* state and the file the running step has loaded
    viewer_out      \* what the last operation on the viewer did

viewer_vars == <<map_viewer, timers, viewer_out>>

TimerIds == 1..MaxTimers

\* self.animate_timer = None
None == 0

\* Gtk.STOCK_MISSING_IMAGE
MissingImage == <<"missing">>

\* the picture of map/traffic_map.png
TrafficImage == <<"traffic">>

\* the image widget before anything is shown in it
NoImage == <<"empty">>

\* a timer that was never started, was cancelled, or whose function returned
DeadTimer == [st |-> "dead", file |-> NoPath]

\* a timer that was started and waits for its interval to pass
PendingTimer == [st |-> "pending", file |-> NoPath]

\* the fields __init__ of NRSC5Map sets, with the viewer_config of map_data
NewViewer(config) ==
    [state |-> "none", config |-> config, animate_timer |-> None,
     animate_busy |-> FALSE, animate_stop |-> FALSE, map_index |-> 0,
     img_map |-> NoImage, shared |-> TRUE, own |-> <<>>]

\* the values viewer_config can have when the program starts: the defaults
\* of __init__ or what load_settings read from the saved configuration
ViewerConfigs == [mode : {0, 1}, animate : BOOLEAN]

NoViewerResult ==
    [op |-> "none", rendered |-> FALSE, interval |-> "none", quiet |-> FALSE,
     was_quiet |-> FALSE]

\* the viewer_config of __init__: weather mode, no animation
DefaultConfig == [mode |-> 1, animate |-> FALSE]

\* no viewer has been opened; viewer_config has the defaults
ViewerInit ==
    /\ map_viewer = NewViewer(DefaultConfig)
    /\ timers = [t \in TimerIds |-> DeadTimer]
    /\ viewer_out = NoViewerResult

\* no viewer has been opened; viewer_config is what load_settings read
SavedViewerInit ==
    /\ map_viewer \in {NewViewer(c) : c \in ViewerConfigs}
    /\ timers = [t \in TimerIds |-> DeadTimer]
    /\ viewer_out = NoViewerResult

\* what the viewer reads of the main program: its list self.weather_maps,
\* data["weather_now"], the weather map files and whether
\* map/traffic_map.png exists
Context(maps, weather_now, disk, png) ==
    [maps |-> maps, weather_now |-> weather_now, disk |-> disk, png |-> png]

\* self.weather_maps of the viewer when the list of the parent is maps
ViewerMaps(v, maps) == IF v.shared THEN maps ELSE v.own

Here ==
    Context(ViewerMaps(map_viewer, weather_maps), map_data.weather_now,
            weather_png, traffic_png)

\* show_image(filename, scale): the picture the widget shows afterwards
show_image(is_file, picture) == IF is_file THEN picture ELSE MissingImage

\* set_map(map_type): the picture the widget shows afterwards
set_map(map_type, ctx) ==
    IF map_type = 0
    THEN show_image(ctx.png, TrafficImage)
    ELSE show_image(ctx.weather_now \in DOMAIN ctx.disk, ctx.weather_now)

\* updated(): the viewer object afterwards
updated(v, ctx) ==
    IF v.config.mode = 0
    THEN [v EXCEPT !.img_map = set_map(0, ctx)]
    ELSE [v EXCEPT !.img_map = set_map(1, ctx),
                   !.map_index = Len(ctx.maps) - 1]

\* the scheduler is playing: animation is on and the viewer shows the weather
Playing(v) == v.config.animate /\ v.config.mode = 1

\* the timers whose function animate is running
InFlight(ts) == {t \in TimerIds : ts[t].st \in {"opening", "loaded", "go", "halt"}}

\* the record of an operation on the viewer that leaves the viewer v and the
\* timers ts: the operation, whether it put a picture into the window, the
\* interval of the timer it started; quiet: the scheduler is not playing and
\* has been without a step in flight since it stopped playing; was_quiet:
\* quiet held when the operation began
Observed(op, rendered, interval, v, ts) ==
    [op |-> op, rendered |-> rendered, interval |-> interval,
     quiet |-> IF Playing(v) THEN FALSE
               ELSE IF InFlight(ts) = {} THEN TRUE
               ELSE viewer_out.quiet,
     was_quiet |-> viewer_out.quiet]

\* self.map_viewer is not None: the window is open or a teardown waits
Attached(v) == v.state \in {"open", "closing", "shutting"}

\* if self.map_viewer is not None: self.map_viewer.updated(), after a handler
\* of the main program that leaves the context ctx
notify_viewer(ctx) ==
    IF Attached(map_viewer)
    THEN /\ map_viewer' = updated(map_viewer, ctx)
         /\ viewer_out' = Observed("updated", TRUE, "none", map_viewer', timers)
         /\ UNCHANGED timers
    ELSE UNCHANGED viewer_vars

\* ------------------------------------------------------------------------
\* Map viewer: the handlers of the window
\* ------------------------------------------------------------------------

\* a timer object that can stand for a new threading.Timer: one that is dead
FreeTimers(ts) == {t \in TimerIds : ts[t].st = "dead"}

NextTimer(ts) == CHOOSE t \in FreeTimers(ts) : \A u \in FreeTimers(ts) : t <= u

\* self.animate_timer.cancel(): a timer that waits is stopped, a timer whose
\* function runs or has returned is left as it is
cancel(ts, t) ==
    IF t # None /\ ts[t].st = "pending" THEN [ts EXCEPT ![t] = DeadTimer] ELSE ts

\* self.animate_timer = threading.Timer(interval, self.animate);
\* self.animate_timer.start()
start_timer(v, ts, interval) ==
    LET t == NextTimer(ts)
    IN [v |-> [v EXCEPT !.animate_timer = t],
        ts |-> [ts EXCEPT ![t] = PendingTimer],
        interval |-> interval, raised |-> FALSE]

\* the handler returns without a new timer
no_timer(v, ts) == [v |-> v, ts |-> ts, interval |-> "none", raised |-> FALSE]

\* "stop animation if it's enabled": cancel the timer and forget it
stop_timer(v, ts) ==
    IF v.animate_timer # None
    THEN [v |-> [v EXCEPT !.animate_timer = None], ts |-> cancel(ts, v.animate_timer)]
    ELSE [v |-> v, ts |-> ts]

\* on_chk_animate_toggled(btn) with chk_animate.get_active() = active
on_chk_animate_toggled(v, ts, active, ctx) ==
    LET w == [v EXCEPT !.config.animate = active]
    IN IF active /\ w.config.mode = 1
       THEN \* start animation
            start_timer(w, ts, "speed")
       ELSE \* stop animation, reset the animation index, show the most recent map
            LET stopped == stop_timer(w, ts)
            IN no_timer([stopped.v EXCEPT !.map_index = Len(ctx.maps) - 1,
                                          !.img_map = set_map(w.config.mode, ctx)],
                        stopped.ts)

\* on_rad_map_toggled with the configured interval in the place of 0.05
on_rad_map_toggled_speed(v, ts, map_type, ctx) ==
    LET w == [v EXCEPT !.config.mode = map_type]
    IN IF map_type = 0
       THEN LET stopped == stop_timer(w, ts)
            IN no_timer([stopped.v EXCEPT !.img_map = set_map(0, ctx)], stopped.ts)
       ELSE IF w.config.animate /\ w.animate_timer = None
            THEN start_timer(w, ts, "speed")
            ELSE IF ~w.config.animate
                 THEN no_timer([w EXCEPT !.img_map = set_map(1, ctx)], ts)
                 ELSE no_timer(w, ts)

\* on_rad_map_toggled(btn) for the radio button of map_type that became active
on_rad_map_toggled(v, ts, map_type, ctx) ==
    LET w == [v EXCEPT !.config.mode = map_type]
    IN IF map_type = 0
       THEN \* stop animation if it's enabled, show the traffic map
            LET stopped == stop_timer(w, ts)
            IN no_timer([stopped.v EXCEPT !.img_map = set_map(0, ctx)], stopped.ts)
       ELSE IF w.config.animate /\ w.animate_timer = None
            THEN start_timer(w, ts, "first")
            ELSE IF ~w.config.animate
                 THEN no_timer([w EXCEPT !.img_map = set_map(1, ctx)], ts)
                 ELSE no_timer(w, ts)

\* self.weather_maps[i] of Python for a list that is not empty: a negative
\* index counts from the end
Item(list, i) == IF i >= 0 THEN list[i + 1] ELSE list[Len(list) + i + 1]

\* self.weather_maps[i] raises IndexError
IndexError(list, i) == i >= Len(list) \/ i < 0 - Len(list)

\* on_chk_scale_toggled(btn) with scale on; scale changes the size of the
\* picture only, which the model does not keep
on_chk_scale_toggled(v, ts, ctx) ==
    IF v.config.mode = 1
    THEN IF v.config.animate
         THEN LET i == IF v.map_index - 1 < 0 THEN Len(ctx.maps) - 1
                       ELSE v.map_index - 1
              IN IF IndexError(ctx.maps, i)
                 THEN [v |-> v, ts |-> ts, interval |-> "none", raised |-> TRUE]
                 ELSE no_timer([v EXCEPT !.img_map =
                                   show_image(Item(ctx.maps, i) \in DOMAIN ctx.disk,
                                              Item(ctx.maps, i))], ts)
         ELSE no_timer([v EXCEPT !.img_map = set_map(1, ctx)], ts)
    ELSE no_timer(v, ts)

\* the radio buttons that can be the active one in map_form.glade, a file
\* that is not part of the sources at hand: set_active(True) on the other
\* one emits "toggled", on this one it emits nothing.  The check buttons are
\* taken to be inactive in the form, as Gtk makes them.
GladeModes == {0, 1}

\* NRSC5Map.__init__ for a form whose active radio button is glade_mode
NRSC5Map(v, ts, glade_mode, ctx) ==
    LET mode == v.config.mode
        fresh == [NewViewer(v.config) EXCEPT !.state = "open"]
        \* self.rad_map_traffic.set_active(True) or self.rad_map_weather.set_active(True)
        radio == IF glade_mode # mode THEN on_rad_map_toggled(fresh, ts, mode, ctx)
                 ELSE no_timer(fresh, ts)
        \* self.set_map(self.config["mode"])
        shown == [radio.v EXCEPT !.img_map = set_map(mode, ctx)]
        \* self.chk_animate.set_active(self.config["animate"])
        check == IF v.config.animate
                 THEN on_chk_animate_toggled(shown, radio.ts, TRUE, ctx)
                 ELSE no_timer(shown, radio.ts)
        \* self.chk_scale.set_active(self.config["scale"])
        scale == on_chk_scale_toggled(check.v, check.ts, ctx)
    IN IF scale.raised
       THEN [v |-> [scale.v EXCEPT !.state = "failed"], ts |-> scale.ts,
             interval |-> check.interval, raised |-> TRUE]
       ELSE [v |-> scale.v, ts |-> scale.ts, interval |-> check.interval,
             raised |-> FALSE]

\* ------------------------------------------------------------------------
\* Map viewer: animate, the function of the timers
\* ------------------------------------------------------------------------

\* animate() from the start of the function of timer t to the test of
\* config["animate"]: the file name is read from the list, and either the
\* picture is loaded, or the file is missing and the animation is switched
\* off, or the index is outside of the list and IndexError ends the thread
animate_load(v, ts, t, ctx) ==
    LET filename == IF ctx.maps = <<>> THEN NoPath ELSE Item(ctx.maps, v.map_index)
    IN IF ctx.maps # <<>> /\ IndexError(ctx.maps, v.map_index)
       THEN [v |-> v, ts |-> [ts EXCEPT ![t] = DeadTimer], res |-> "index_error"]
       ELSE IF filename \in DOMAIN ctx.disk
       THEN [v |-> [v EXCEPT !.animate_busy = TRUE],
             ts |-> [ts EXCEPT ![t] = [st |-> "loaded", file |-> filename]],
             res |-> "loaded"]
       ELSE \* self.chk_animate.set_active(False) emits "toggled" if the
            \* check button was active; self.map_index = 0
            LET off == IF v.config.animate
                       THEN on_chk_animate_toggled(v, [ts EXCEPT ![t] = DeadTimer],
                                                   FALSE, ctx)
                       ELSE no_timer(v, [ts EXCEPT ![t] = DeadTimer])
            IN [v |-> [off.v EXCEPT !.map_index = 0], ts |-> off.ts,
                res |-> IF v.config.animate THEN "not_found_off" ELSE "not_found"]

\* the test of animate with the two conditions on the configuration lost
still_wanted_always(v) == ~v.animate_stop

\* if self.config["animate"] and self.config["mode"] == 1 and not self.animate_stop
still_wanted(v) == v.config.animate /\ v.config.mode = 1 /\ ~v.animate_stop

\* self.map_index += 1; if self.map_index >= len(self.weather_maps): self.map_index = 0
next_index(index, length) == IF index + 1 >= length THEN 0 ELSE index + 1

\* the interval of every step is the configured one
next_interval_speed(index, length) == "speed"

\* threading.Timer(2, ...) after the last image, else
\* threading.Timer(self.config["animation_speed"], ...)
next_interval(index, length) == IF index + 1 >= length THEN "long" ELSE "speed"

\* animate() from the test to the end, for a step whose test said go: the
\* picture is shown, the index advances, the next timer is started
animate_show(v, ts, t, ctx) ==
    LET length == Len(ctx.maps)
        w == [v EXCEPT !.img_map = ts[t].file,
                       !.map_index = next_index(v.map_index, length),
                       !.animate_busy = FALSE]
        next == start_timer(w, [ts EXCEPT ![t] = DeadTimer],
                            next_interval(v.map_index, length))
    IN next

\* animate() from the test to the end, for a step whose test said halt
animate_halt(v, ts, t) ==
    no_timer([v EXCEPT !.animate_timer = None, !.animate_busy = FALSE],
             [ts EXCEPT ![t] = DeadTimer])

\* ------------------------------------------------------------------------
\* Traffic map: process_traffic_map
\* ------------------------------------------------------------------------

\* process_traffic_map(filename, data) for a file name TMT_.._<row>_<col>_<date>
\* that declares row, column (1..3) and minute m
process_traffic_map(row, col, m, data) ==
    LET tile_x == row - 1
        tile_y == col - 1
        timestamp == Timestamp(m)
    IN
    IF tile_loaded(map_tiles, tile_x, tile_y, timestamp)
    THEN \* return: no need to recreate the map if it hasn't changed
         /\ traffic_out' = "dup"
         /\ UNCHANGED <<map_tiles, traffic_map, traffic_png>>
         /\ UNCHANGED viewer_vars
    ELSE /\ map_tiles' = store_tile(map_tiles, tile_x, tile_y, timestamp)
         /\ IF data = BadData
            THEN \* Image.open raises; nothing in process_traffic_map catches it
                 /\ traffic_out' = "raised"
                 /\ UNCHANGED <<traffic_map, traffic_png>>
                 /\ UNCHANGED viewer_vars
            ELSE /\ traffic_map' = paste(traffic_map, tile_x, tile_y, data)
                 /\ IF check_tiles(map_tiles', timestamp)
                    THEN \* self.traffic_map.save("map/traffic_map.png")
                         /\ traffic_png' = TRUE
                         /\ traffic_out' = "complete"
                         /\ notify_viewer(Context(ViewerMaps(map_viewer, weather_maps),
                                                  map_data.weather_now, weather_png,
                                                  TRUE))
                    ELSE /\ traffic_out' = "pending"
                         /\ UNCHANGED traffic_png
                         /\ UNCHANGED viewer_vars

\* a traffic fragment arrives (callback, EventType.LOT on the traffic port)
TrafficFragment ==
    \E row \in 1..3, col \in 1..3, m \in TrafficMinutes :
        \E data \in TilePayloads(row, col, Timestamp(m)) :
            process_traffic_map(row, col, m, data)

\* the positions watched when the order of the fragments is in question: two
\* of one row and the one whose payload can be undecodable
PlacementPositions == {<<1, 1>>, <<1, 2>>, <<2, 3>>}

\* a traffic fragment arrives for one of the watched positions
PlacementFragment ==
    \E pos \in PlacementPositions, m \in TrafficMinutes :
        \E data \in TilePayloads(pos[1], pos[2], Timestamp(m)) :
            process_traffic_map(pos[1], pos[2], m, data)

\* the scenario of nine fragments of one generation, one per cell, each with a
\* decodable payload, arriving in any order: a fragment arrives for a cell
\* that has none yet, of the generation of the fragments that came before
ScenarioFragment ==
    \E row \in 1..3, col \in 1..3, m \in TrafficMinutes :
        /\ \A i \in TileRange : \A j \in TileRange :
               map_tiles[i][j] \in {0, Timestamp(m)}
        /\ map_tiles[row - 1][col - 1] = 0
        /\ process_traffic_map(row, col, m, TilePicture(Timestamp(m)))

\* ------------------------------------------------------------------------
\* Weather map: process_weather_overlay
\* ------------------------------------------------------------------------

\* the test of the region of process_weather_overlay left out
wrong_id_never(name_id, map_id) == FALSE

\* if match.group(1) != map_id: the overlay is of another region than the
\* tracked one
wrong_id(name_id, map_id) == name_id # map_id

\* the guard of process_weather_overlay left out
overlay_loaded_never(weather_time, timestamp) == FALSE

\* the guard of process_weather_overlay: the overlay has already been loaded
overlay_loaded(weather_time, timestamp) == weather_time = timestamp

\* the try block of process_weather_overlay: the exception that ends it
\* ("none" when it runs to its end) and the base map files it leaves
composite_attempt(map_id, data, fault) ==
    LET made == IF map_id \in DOMAIN base_map_png
                THEN [base |-> base_map_png, exc |-> "none"]
                ELSE make_base_map(base_map_png, map_id, map_data.weather_pos, fault)
    IN IF made.exc # "none" THEN made
       ELSE IF map_id \notin DOMAIN made.base
            THEN \* Image.open(map_path): no such file
                 [base |-> made.base, exc |-> "OSError"]
       ELSE IF data = BadData
            THEN \* Image.open(io.BytesIO(data)) cannot identify the image
                 [base |-> made.base, exc |-> "OSError"]
       ELSE IF fault = "save_weather"
            THEN \* img_map.save(weather_map_path) fails
                 [base |-> made.base, exc |-> "OSError"]
       ELSE [base |-> made.base, exc |-> "none"]

\* process_weather_overlay(filename, data) for a file name DWRO_<id>_.._<date>
\* that declares the region name_id and the hour h, under a fault
process_weather_overlay(name_id, h, data, fault) ==
    LET timestamp == HourStamp(h)
        map_id == map_data.weather_id
        weather_map_file == weather_map_path(map_id, timestamp)
    IN
    IF wrong_id(name_id, map_id)
    THEN \* Received weather overlay with the wrong ID
         /\ weather_out' = [res |-> "wrong_id", deleted |-> {}]
         /\ UNCHANGED <<map_data, weather_maps, weather_png, base_map_png>>
         /\ UNCHANGED viewer_vars
    ELSE IF overlay_loaded(map_data.weather_time, timestamp)
    THEN \* return: no need to recreate the map if it hasn't changed
         /\ weather_out' = [res |-> "dup", deleted |-> {}]
         /\ UNCHANGED <<map_data, weather_maps, weather_png, base_map_png>>
         /\ UNCHANGED viewer_vars
    ELSE LET try == composite_attempt(map_id, data, fault)
         IN /\ base_map_png' = try.base
            /\ IF try.exc = "none"
               THEN LET saved == (weather_map_file :> data) @@ weather_png
                        kept == process_weather_maps(weather_maps, saved, map_id, undeletable)
                    IN /\ map_data' = [map_data EXCEPT !.weather_time = timestamp,
                                                       !.weather_now = weather_map_file]
                       /\ weather_maps' = kept.maps
                       /\ weather_png' = kept.disk
                       /\ weather_out' = [res |-> "ok",
                                          deleted |-> DOMAIN saved \ DOMAIN kept.disk]
                       /\ notify_viewer(Context(ViewerMaps(map_viewer, kept.maps),
                                                weather_map_file, kept.disk,
                                                traffic_png))
               ELSE IF try.exc = "OSError"
               THEN \* except OSError: Error creating weather map
                    /\ map_data' = [map_data EXCEPT !.weather_time = 0]
                    /\ weather_out' = [res |-> "oserror", deleted |-> {}]
                    /\ UNCHANGED <<weather_maps, weather_png>>
                    /\ UNCHANGED viewer_vars
               ELSE \* an exception that is no OSError leaves the handler
                    /\ map_data' = [map_data EXCEPT !.weather_time = timestamp]
                    /\ weather_out' = [res |-> "raised", deleted |-> {}]
                    /\ UNCHANGED <<weather_maps, weather_png>>
                    /\ UNCHANGED viewer_vars

\* ------------------------------------------------------------------------
\* Weather map: process_weather_info
\* ------------------------------------------------------------------------

\* process_weather_info(data) for a DWRI_ file that declares the region
\* weather_id with the bounding box weather_pos, under a fault
process_weather_info(weather_id, weather_pos, fault) ==
    IF map_data.weather_id # weather_id \/ map_data.weather_pos # weather_pos
    THEN LET made == make_base_map(base_map_png, weather_id, weather_pos, fault)
         IN /\ map_data' = [map_data EXCEPT !.weather_id = weather_id,
                                            !.weather_pos = weather_pos]
            /\ base_map_png' = made.base
            /\ IF made.exc = "none"
               THEN LET kept == process_weather_maps(<<>>, weather_png, weather_id, undeletable)
                    IN /\ weather_maps' = kept.maps
                       /\ weather_png' = kept.disk
                       /\ weather_out' = [res |-> "changed",
                                          deleted |-> DOMAIN weather_png \ DOMAIN kept.disk]
                       \* self.weather_maps = [] makes a new list object: a
                       \* viewer that exists keeps the list object of before
                       /\ map_viewer' =
                              IF map_viewer.state # "none" /\ map_viewer.shared
                              THEN [map_viewer EXCEPT !.shared = FALSE,
                                                      !.own = weather_maps]
                              ELSE map_viewer
                       /\ UNCHANGED <<timers, viewer_out>>
               ELSE \* nothing in process_weather_info catches the exception
                    /\ weather_out' = [res |-> "info_raised", deleted |-> {}]
                    /\ UNCHANGED <<weather_maps, weather_png>>
                    /\ UNCHANGED viewer_vars
    ELSE /\ weather_out' = [res |-> "same", deleted |-> {}]
         /\ UNCHANGED <<map_data, weather_maps, weather_png, base_map_png>>
         /\ UNCHANGED viewer_vars

\* ------------------------------------------------------------------------
\* Weather map: the environment
\* ------------------------------------------------------------------------

\* a radar overlay arrives (callback, EventType.LOT on the weather port)
WeatherOverlay ==
    \E k \in 1..Len(RegionOrder), h \in OverlayHours :
        \E data \in RadarPictures \cup {BadData}, fault \in Faults :
            /\ process_weather_overlay(RegionOrder[k], h, data, fault)
            /\ UNCHANGED <<map_file, now, undeletable>>

\* region metadata arrives (callback, EventType.LOT on the weather port)
WeatherInfo ==
    \E weather_id \in TrackedRegions, weather_pos \in RegionBoxes, fault \in Faults :
        /\ process_weather_info(weather_id, weather_pos, fault)
        /\ UNCHANGED <<map_file, now, undeletable>>

\* time passes
Tick ==
    \E h \in ClockHours :
        /\ HourStamp(h) > now
        /\ now' = HourStamp(h)
        /\ weather_out' = NoResult
        /\ UNCHANGED <<map_data, weather_maps, weather_png, base_map_png, map_file,
                       undeletable>>

\* ------------------------------------------------------------------------
\* Weather map: the environment of a receiver that changes its region
\* ------------------------------------------------------------------------

\* the regions whose metadata is on the air when the receiver is retuned
AllRegions == {RegionOrder[k] : k \in 1..Len(RegionOrder)}

\* the hours at which the overlays are dated, and at which the program is
\* observed: at 13:00 an overlay of 0:00 is older than Retention
RegionHours == {0, 13}

\* the weather map files that can become files os.remove cannot remove
ProtectedFiles == {weather_map_path("LWX", HourStamp(0))}

\* a radar overlay arrives
RegionOverlay ==
    \E id \in AllRegions, h \in RegionHours :
        /\ process_weather_overlay(id, h, <<"radar", 1>>, "none")
        /\ UNCHANGED <<map_file, now, undeletable>>

\* region metadata arrives
RegionInfo ==
    \E weather_id \in AllRegions, weather_pos \in RegionBoxes, fault \in Faults :
        /\ process_weather_info(weather_id, weather_pos, fault)
        /\ UNCHANGED <<map_file, now, undeletable>>

\* time passes
RegionTick ==
    \E h \in RegionHours :
        /\ HourStamp(h) > now
        /\ now' = HourStamp(h)
        /\ weather_out' = NoResult
        /\ UNCHANGED <<map_data, weather_maps, weather_png, base_map_png, map_file,
                       undeletable>>

\* a weather map file becomes one that os.remove cannot remove (a change of
\* the permissions of the file or of the directory map)
Protect ==
    \E f \in (DOMAIN weather_png \cap ProtectedFiles) \ undeletable :
        /\ undeletable' = undeletable \cup {f}
        /\ weather_out' = NoResult
        /\ UNCHANGED <<map_data, weather_maps, weather_png, base_map_png, map_file,
                       now>>

\* ------------------------------------------------------------------------
\* Weather map: the environment of a station that changes its coverage
\* ------------------------------------------------------------------------

\* the bounding boxes on the air: the one of RegionBoxes and the one the
\* station announces after the change
AllBoxes == RegionBoxes \cup {<<41, -80, 38, -76>>}

\* a radar overlay arrives
CoverageOverlay ==
    \E id \in TrackedRegions, h \in RegionHours, fault \in Faults :
        /\ process_weather_overlay(id, h, <<"radar", 1>>, fault)
        /\ UNCHANGED <<map_file, now, undeletable>>

\* region metadata arrives
CoverageInfo ==
    \E weather_id \in TrackedRegions, weather_pos \in AllBoxes, fault \in Faults :
        /\ process_weather_info(weather_id, weather_pos, fault)
        /\ UNCHANGED <<map_file, now, undeletable>>

\* the user removes the base map files of the directory map
RemoveBaseMaps ==
    /\ base_map_png # NoFiles
    /\ base_map_png' = NoFiles
    /\ weather_out' = NoResult
    /\ UNCHANGED <<map_data, weather_maps, weather_png, map_file, now, undeletable>>

\* ------------------------------------------------------------------------
\* Map viewer: the environment
\* ------------------------------------------------------------------------

\* on_btn_map_clicked: the user opens the map viewer
OpenViewer ==
    /\ map_viewer.state = "none"
    /\ Cardinality(FreeTimers(timers)) >= 2
    /\ \E glade_mode \in GladeModes :
          LET made == NRSC5Map(map_viewer, timers, glade_mode, Here)
          IN /\ map_viewer' = made.v
             /\ timers' = made.ts
             /\ viewer_out' = Observed(IF made.raised THEN "open_raised" ELSE "open",
                                       TRUE, made.interval, made.v, made.ts)

\* the user clicks the check button "animate"
ToggleAnimate ==
    /\ map_viewer.state = "open"
    /\ FreeTimers(timers) # {}
    /\ LET active == ~map_viewer.config.animate
           done == on_chk_animate_toggled(map_viewer, timers, active, Here)
       IN /\ map_viewer' = done.v
          /\ timers' = done.ts
          /\ viewer_out' = Observed(IF done.interval = "none" THEN "stop" ELSE "start",
                                    done.interval = "none", done.interval,
                                    done.v, done.ts)

\* the user clicks the radio button of the other map
SelectMode ==
    /\ map_viewer.state = "open"
    /\ FreeTimers(timers) # {}
    /\ LET map_type == 1 - map_viewer.config.mode
           done == on_rad_map_toggled(map_viewer, timers, map_type, Here)
       IN /\ map_viewer' = done.v
          /\ timers' = done.ts
          /\ viewer_out' = Observed("mode", done.v.img_map # map_viewer.img_map,
                                    done.interval, done.v, done.ts)

\* the interval of a timer has passed: its thread starts to run animate
TimerFires ==
    \E t \in TimerIds :
        /\ timers[t].st = "pending"
        /\ LET done == animate_load(map_viewer, timers, t, Here)
           IN /\ map_viewer' = done.v
              /\ timers' = done.ts
              /\ viewer_out' = Observed(done.res, done.res = "not_found_off", "none",
                                        done.v, done.ts)

\* the thread of a timer evaluates the test of animate
TimerTests ==
    \E t \in TimerIds :
        /\ timers[t].st = "loaded"
        /\ timers' = [timers EXCEPT ![t].st =
                          IF still_wanted(map_viewer) THEN "go" ELSE "halt"]
        /\ viewer_out' = Observed("test", FALSE, "none", map_viewer, timers')
        /\ UNCHANGED map_viewer

\* the thread of a timer runs animate to its end
TimerStep ==
    \E t \in TimerIds :
        /\ timers[t].st \in {"go", "halt"}
        /\ LET done == IF timers[t].st = "go"
                       THEN animate_show(map_viewer, timers, t, Here)
                       ELSE animate_halt(map_viewer, timers, t)
           IN /\ map_viewer' = done.v
              /\ timers' = done.ts
              /\ viewer_out' = Observed("step", timers[t].st = "go", done.interval,
                                        done.v, done.ts)

\* the hours at which the overlays are dated while the viewer is watched
AnimationHours == {0, 2, 13}

\* region metadata arrives while the viewer is watched
AnimationInfo ==
    \E weather_id \in TrackedRegions, weather_pos \in RegionBoxes :
        /\ process_weather_info(weather_id, weather_pos, "none")
        /\ UNCHANGED <<map_file, now, undeletable>>

\* a radar overlay arrives while the viewer is watched: the station sends
\* the overlays in the order of their dates
AnimationOverlay ==
    \E id \in TrackedRegions, h \in AnimationHours :
        /\ \A f \in DOMAIN weather_png : path_timestamp(f) < HourStamp(h)
        /\ process_weather_overlay(id, h, <<"radar", 1>>, "none")
        /\ UNCHANGED <<map_file, now, undeletable>>

\* ------------------------------------------------------------------------
\* Player: the status timer (on_btn_play_clicked, on_btn_stop_clicked,
\* check_status)
\* ------------------------------------------------------------------------

VARIABLES
    playing,        \* self.playing
    status_timer,   \* the timer self.status_timer refers to, 0 for None
    status_timers   \* the threading.Timer objects made for check_status:
                    \*   "dead", "pending" (started, waits for its second),
                    \*   "running" (its thread is inside check_status),
                    \*   "go" (it has found self.playing true)

status_vars == <<playing, status_timer, status_timers>>

StatusIds == 1..MaxStatus

\* self.playing = False; self.status_timer = None
StatusInit ==
    /\ playing = FALSE
    /\ status_timer = None
    /\ status_timers = [s \in StatusIds |-> "dead"]

\* a timer object that can stand for a new threading.Timer(1, self.check_status)
FreeStatus(sts) == {s \in StatusIds : sts[s] = "dead"}

NextStatus(sts) == CHOOSE s \in FreeStatus(sts) : \A u \in FreeStatus(sts) : s <= u

\* the timers whose function check_status is running
StatusInFlight(sts) == {s \in StatusIds : sts[s] \in {"running", "go"}}

\* self.status_timer.cancel()
cancel_status(sts, s) ==
    IF s # None /\ sts[s] = "pending" THEN [sts EXCEPT ![s] = "dead"] ELSE sts

\* self.status_timer = threading.Timer(1, self.check_status);
\* self.status_timer.start()
start_status ==
    LET s == NextStatus(status_timers)
    IN /\ status_timer' = s
       /\ status_timers' = [status_timers EXCEPT ![s] = "pending"]

\* the user clicks the play button: on_btn_play_clicked
Play ==
    /\ ~playing
    /\ FreeStatus(status_timers) # {}
    /\ start_status
    /\ playing' = TRUE

\* the user clicks the stop button: on_btn_stop_clicked
Stop ==
    /\ playing
    /\ playing' = FALSE
    /\ status_timers' = cancel_status(status_timers, status_timer)
    /\ status_timer' = None

\* the second of a status timer has passed: its thread starts to run
\* check_status
StatusFires ==
    \E s \in StatusIds :
        /\ status_timers[s] = "pending"
        /\ status_timers' = [status_timers EXCEPT ![s] = "running"]
        /\ UNCHANGED <<playing, status_timer>>

\* the thread of a status timer evaluates "if self.playing"; if it is false
\* check_status returns
StatusTests ==
    \E s \in StatusIds :
        /\ status_timers[s] = "running"
        /\ status_timers' = [status_timers EXCEPT ![s] =
                                 IF playing THEN "go" ELSE "dead"]
        /\ UNCHANGED <<playing, status_timer>>

\* the thread of a status timer queues update, starts the next status timer
\* and returns
StatusStarts ==
    \E s \in StatusIds :
        /\ status_timers[s] = "go"
        /\ LET sts == [status_timers EXCEPT ![s] = "dead"]
               n == NextStatus(sts)
           IN /\ status_timer' = n
              /\ status_timers' = [sts EXCEPT ![n] = "pending"]
        /\ UNCHANGED playing

\* the end of shutdown: self.playing = False; "shut down status timer if
\* it's running"
stop_status ==
    /\ playing' = FALSE
    /\ status_timers' = cancel_status(status_timers, status_timer)
    /\ UNCHANGED status_timer

\* ------------------------------------------------------------------------
\* Map viewer: teardown (on_map_window_delete, shutdown)
\* ------------------------------------------------------------------------

\* animate() from the start of the function of timer t to Image.open: as
\* animate_load, but the picture is not loaded yet
animate_check(v, ts, t, ctx) ==
    LET done == animate_load(v, ts, t, ctx)
    IN IF done.res = "loaded"
       THEN [v |-> done.v, ts |-> [done.ts EXCEPT ![t].st = "opening"],
             res |-> "opening"]
       ELSE done

\* Image.open(filename) of animate: the file is still there and the picture
\* is loaded, or it has been removed since os.path.isfile and the exception
\* ends the thread of the timer
animate_open(v, ts, t, ctx) ==
    IF ts[t].file \in DOMAIN ctx.disk
    THEN [v |-> v, ts |-> [ts EXCEPT ![t].st = "loaded"], res |-> "loaded"]
    ELSE [v |-> v, ts |-> [ts EXCEPT ![t] = DeadTimer], res |-> "open_error"]

\* "cancel the timer if it's running" of on_map_window_delete and of
\* shutdown: self.animate_timer.cancel(); self.animate_stop = True
cancel_and_stop(v, ts) ==
    IF v.animate_timer # None
    THEN [v |-> [v EXCEPT !.animate_stop = TRUE], ts |-> cancel(ts, v.animate_timer)]
    ELSE [v |-> v, ts |-> ts]

\* one pass of "while self.animate_busy": the timer is cancelled again, or
\* the loop is left and the viewer is in the state left
wait_for_animation(v, ts, left) ==
    IF v.animate_busy
    THEN [v |-> v, ts |-> cancel(ts, v.animate_timer)]
    ELSE [v |-> [v EXCEPT !.state = left], ts |-> ts]

\* the thread of a timer starts to run animate, up to Image.open
TimerChecks ==
    \E t \in TimerIds :
        /\ timers[t].st = "pending"
        /\ LET done == animate_check(map_viewer, timers, t, Here)
           IN /\ map_viewer' = done.v
              /\ timers' = done.ts
              /\ viewer_out' = Observed(done.res, done.res = "not_found_off", "none",
                                        done.v, done.ts)

\* the thread of a timer runs Image.open
TimerOpens ==
    \E t \in TimerIds :
        /\ timers[t].st = "opening"
        /\ LET done == animate_open(map_viewer, timers, t, Here)
           IN /\ map_viewer' = done.v
              /\ timers' = done.ts
              /\ viewer_out' = Observed(done.res, FALSE, "none", done.v, done.ts)

\* the user closes the window of the viewer: on_map_window_delete up to its
\* loop
CloseViewer ==
    /\ map_viewer.state = "open"
    /\ LET done == cancel_and_stop(map_viewer, timers)
       IN /\ map_viewer' = [done.v EXCEPT !.state = "closing"]
          /\ timers' = done.ts
          /\ viewer_out' = Observed("close", FALSE, "none", map_viewer', done.ts)

\* on_map_window_delete: a pass of its loop; after the loop self.callback()
\* sets self.map_viewer of the main program to None
CloseWaits ==
    /\ map_viewer.state = "closing"
    /\ LET done == wait_for_animation(map_viewer, timers, "closed")
       IN /\ map_viewer' = done.v
          /\ timers' = done.ts
          /\ viewer_out' = Observed("close", FALSE, "none", done.v, done.ts)

\* the user closes the main window while the viewer is open: shutdown up to
\* its loop, which it enters only if self.map_viewer.animate_timer is set;
\* without the loop, shutdown to its end
Shutdown ==
    /\ map_viewer.state = "open"
    /\ LET done == cancel_and_stop(map_viewer, timers)
       IN /\ map_viewer' = [done.v EXCEPT !.state =
                               IF map_viewer.animate_timer # None
                               THEN "shutting" ELSE "shut"]
          /\ timers' = done.ts
          /\ viewer_out' = Observed("shutdown", FALSE, "none", map_viewer', done.ts)
    /\ IF map_viewer.animate_timer # None
       THEN UNCHANGED status_vars
       ELSE stop_status

\* shutdown: a pass of its loop, and after the loop the end of shutdown
ShutdownWaits ==
    /\ map_viewer.state = "shutting"
    /\ LET done == wait_for_animation(map_viewer, timers, "shut")
       IN /\ map_viewer' = done.v
          /\ timers' = done.ts
          /\ viewer_out' = Observed("shutdown", FALSE, "none", done.v, done.ts)
    /\ IF map_viewer.animate_busy
       THEN UNCHANGED status_vars
       ELSE stop_status

\* region metadata arrives while the viewer is watched: the station may
\* change its coverage
EvictionInfo ==
    \E weather_id \in TrackedRegions, weather_pos \in AllBoxes :
        /\ process_weather_info(weather_id, weather_pos, "none")
        /\ UNCHANGED <<map_file, now, undeletable>>

\* a radar overlay arrives while the viewer is watched: the station sends
\* the overlays in the order of their dates
EvictionOverlay ==
    \E id \in TrackedRegions, h \in RegionHours :
        /\ \A f \in DOMAIN weather_png : path_timestamp(f) < HourStamp(h)
        /\ process_weather_overlay(id, h, <<"radar", 1>>, "none")
        /\ UNCHANGED <<map_file, now, undeletable>>

\* ------------------------------------------------------------------------
\* Receiver: the files of the data services, by name (callback)
\* ------------------------------------------------------------------------

\* the minute of the traffic map on the air while the receiver is watched
ReceiverMinutes == {1}

\* the failures of the disk while the receiver is watched: a weather map or
\* a base map cannot be written
OverlayFaults == {"none", "save_weather"}

InfoFaults == {"none", "save_base"}

\* the date part of a file name: form says whether it is of the form
\* \d{8}_\d{4}; month is the month its digits give (13 for digits that are
\* no date); at is the time its digits give, in minutes
GoodDates(minutes) == [form : {"digits"}, month : {1}, at : minutes]

\* the names TMT_.._<row>_<col>_<date> of the tiles of the traffic map
TileNames ==
    [prefix : {"TMT_"}, row : 1..3, col : 1..3, date : GoodDates(ReceiverMinutes)]

\* the name of the first tile
FirstTile == CHOOSE name \in TileNames : name.row = 1 /\ name.col = 1

\* names of the traffic port that are not as process_traffic_map expects
\* them: the name of the first tile with another prefix, with a row or a
\* column that is not 1, 2 or 3, with a date part of another form, with
\* digits that are no date
MalformedTileNames ==
    {[FirstTile EXCEPT !.prefix = "other"],
     [FirstTile EXCEPT !.row = 4],
     [FirstTile EXCEPT !.col = 4],
     [FirstTile EXCEPT !.date.form = "text"],
     [FirstTile EXCEPT !.date.month = 13]}

\* the names DWRO_<id>_.._<date> of the radar overlays
OverlayNames ==
    [prefix : {"DWRO_"}, id : AllRegions,
     date : GoodDates({60 * h : h \in RegionHours})]

\* the name of an overlay of the tracked region
FirstOverlay ==
    CHOOSE name \in OverlayNames :
        name.id \in TrackedRegions /\ name.date.at = 60 * 13

\* names of the weather port that are not as process_weather_overlay expects
\* them
MalformedOverlayNames ==
    {[FirstOverlay EXCEPT !.prefix = "other"],
     [FirstOverlay EXCEPT !.date.form = "text"],
     [FirstOverlay EXCEPT !.date.month = 13]}

\* the content of a DWRI_ file: its line DWR_Area_ID= and its line
\* Coordinates= are as the regular expressions of process_weather_info
\* expect them ("ok"), are there without matching ("garbled"), or are not
\* there ("absent")
InfoFiles ==
    [id_line : {"ok"}, pos_line : {"ok"}, id : TrackedRegions, pos : RegionBoxes]

\* the content of the first DWRI_ file
FirstInfo == CHOOSE info \in InfoFiles : TRUE

\* DWRI_ files that are not as process_weather_info expects them
MalformedInfoFiles ==
    {[FirstInfo EXCEPT !.id_line = "garbled"],
     [FirstInfo EXCEPT !.id_line = "absent"],
     [FirstInfo EXCEPT !.pos_line = "garbled"],
     [FirstInfo EXCEPT !.pos_line = "absent"]}

\* regex.match(filename) of process_traffic_map:
\* ^TMT_.*_([1-3])_([1-3])_(\d{8}_\d{4}).*$
traffic_match(name) ==
    name.row \in 1..3 /\ name.col \in 1..3 /\ name.date.form = "digits"

\* regex.match(filename) of process_weather_overlay:
\* ^DWRO_(.*)_.*_(\d{8}_\d{4}).*$
overlay_match(name) == name.date.form = "digits"

\* a strptime that takes any digits
strptime_raises_never(date) == FALSE

\* datetime.strptime(text, "%Y%m%d_%H%M") raises ValueError: the digits are
\* no date
strptime_raises(date) == date.month \notin 1..12

\* process_traffic_map(filename, data) from the file name on
process_traffic_file(name, data) ==
    IF ~traffic_match(name)
    THEN /\ traffic_out' = "ignored"
         /\ UNCHANGED <<map_tiles, traffic_map, traffic_png>>
         /\ UNCHANGED viewer_vars
    ELSE IF strptime_raises(name.date)
    THEN \* nothing in process_traffic_map catches the ValueError
         /\ traffic_out' = "value_error"
         /\ UNCHANGED <<map_tiles, traffic_map, traffic_png>>
         /\ UNCHANGED viewer_vars
    ELSE process_traffic_map(name.row, name.col, name.date.at, data)

\* process_weather_overlay(filename, data) from the file name on
process_overlay_file(name, data, fault) ==
    IF ~overlay_match(name)
    THEN /\ weather_out' = [res |-> "ignored", deleted |-> {}]
         /\ UNCHANGED <<map_data, weather_maps, weather_png, base_map_png>>
         /\ UNCHANGED viewer_vars
    ELSE IF strptime_raises(name.date)
    THEN \* nothing in process_weather_overlay catches the ValueError
         /\ weather_out' = [res |-> "value_error", deleted |-> {}]
         /\ UNCHANGED <<map_data, weather_maps, weather_png, base_map_png>>
         /\ UNCHANGED viewer_vars
    ELSE process_weather_overlay(name.id, name.date.at \div 60, data, fault)

\* process_weather_info(data) from the content of the file on
process_info_file(info, fault) ==
    IF info.id_line = "garbled" \/ info.pos_line = "garbled"
    THEN \* match is None: match.group raises AttributeError; or float raises
         /\ weather_out' = [res |-> "parse_error", deleted |-> {}]
         /\ UNCHANGED <<map_data, weather_maps, weather_png, base_map_png>>
         /\ UNCHANGED viewer_vars
    ELSE IF info.id_line = "absent" \/ info.pos_line = "absent"
    THEN \* weather_id or weather_pos is None
         /\ weather_out' = [res |-> "ignored", deleted |-> {}]
         /\ UNCHANGED <<map_data, weather_maps, weather_png, base_map_png>>
         /\ UNCHANGED viewer_vars
    ELSE process_weather_info(info.id, info.pos, fault)

\* callback, EventType.LOT on the traffic port
callback_traffic(name, data) ==
    IF name.prefix = "TMT_"
    THEN process_traffic_file(name, data)
    ELSE /\ traffic_out' = "ignored"
         /\ UNCHANGED <<map_tiles, traffic_map, traffic_png>>
         /\ UNCHANGED viewer_vars

\* a weather port that hands every file to process_weather_overlay
callback_overlay_any(name, data, fault) == process_overlay_file(name, data, fault)

\* callback, EventType.LOT on the weather port, for a file that is no DWRI_
\* file
callback_overlay(name, data, fault) ==
    IF name.prefix = "DWRO_"
    THEN process_overlay_file(name, data, fault)
    ELSE /\ weather_out' = [res |-> "ignored", deleted |-> {}]
         /\ UNCHANGED <<map_data, weather_maps, weather_png, base_map_png>>
         /\ UNCHANGED viewer_vars

\* the cells of the traffic map the station sends before the cell (row, col)
Before(row, col) ==
    {c \in (1..3) \X (1..3) : c[1] < row \/ (c[1] = row /\ c[2] < col)}

\* the station sends the tiles of a traffic map row by row and repeats
\* them: a tile comes when the tiles before it have come
InOrder(name) ==
    (traffic_match(name) /\ ~strptime_raises(name.date)) =>
        \A c \in Before(name.row, name.col) :
            map_tiles[c[1] - 1][c[2] - 1] = Timestamp(name.date.at)

\* a file arrives on the traffic port
LotTraffic ==
    \E name \in TileNames \cup MalformedTileNames :
        /\ InOrder(name)
        /\ \E data \in TilePayloads(name.row, name.col, Timestamp(name.date.at)) :
               callback_traffic(name, data)

\* a file that is no DWRI_ file arrives on the weather port
LotOverlay ==
    \E name \in OverlayNames \cup MalformedOverlayNames, data \in {<<"radar", 1>>, BadData},
       fault \in OverlayFaults :
        /\ callback_overlay(name, data, fault)
        /\ UNCHANGED <<map_file, now, undeletable>>

\* a DWRI_ file arrives on the weather port
LotInfo ==
    \E info \in InfoFiles \cup MalformedInfoFiles, fault \in InfoFaults :
        /\ process_info_file(info, fault)
        /\ UNCHANGED <<map_file, now, undeletable>>

\* ------------------------------------------------------------------------
\* Receiver: the routing of the files (callback, EventType.LOT)
\* ------------------------------------------------------------------------

\* evt.port: self.traffic_port or self.weather_port
Ports == {"traffic", "weather"}

\* how the name of a file begins
Prefixes == {"TMT_", "DWRO_", "DWRI_", "other"}

\* the names of the files while the routing is watched: any prefix, with
\* the parts the three handlers read of a name (a position of the first
\* row, the tracked region, a date)
RoutedNames ==
    [prefix : Prefixes, row : {1}, col : 1..2, id : TrackedRegions,
     date : GoodDates({60 * h : h \in RegionHours})]

\* callback(evt_type, evt) for EventType.LOT with self.map_dir set: the
\* file named name of port evt.port, whose content is data (as a picture)
\* and info (as the lines of a DWRI_ file)
callback(port, name, info, data, fault) ==
    IF port = "traffic"
    THEN /\ callback_traffic(name, data)
         /\ UNCHANGED weather_vars
    ELSE /\ IF name.prefix = "DWRI_"
            THEN process_info_file(info, fault)
            ELSE callback_overlay(name, data, fault)
         /\ UNCHANGED <<map_file, now, undeletable>>
         /\ UNCHANGED traffic_vars

\* the content of the files of a port: the traffic service sends the tile
\* of the date, the weather service a radar picture
RoutedData(port, name) ==
    IF port = "traffic" THEN TilePicture(Timestamp(name.date.at)) ELSE <<"radar", 1>>

\* a file arrives on one of the two ports
Lot ==
    \E port \in Ports, name \in RoutedNames :
        callback(port, name, FirstInfo, RoutedData(port, name), "none")

\* ------------------------------------------------------------------------
\* Specifications
\* ------------------------------------------------------------------------

vars == <<traffic_vars, weather_vars, viewer_vars, status_vars>>

Init == TrafficInit /\ WeatherInit /\ ViewerInit /\ StatusInit

\* the state after construction in an installation that has the world mosaic
InitWithMosaic == Init /\ map_file = TRUE

\* the traffic map under fragments of any position, generation and payload
TrafficNext == TrafficFragment /\ UNCHANGED <<weather_vars, status_vars>>

TrafficSpec == InitWithMosaic /\ [][TrafficNext]_vars

\* the traffic map under fragments of a few positions, in any order
PlacementNext == PlacementFragment /\ UNCHANGED <<weather_vars, status_vars>>

PlacementSpec == InitWithMosaic /\ [][PlacementNext]_vars

\* the traffic map under the scenario of one generation
ScenarioNext == ScenarioFragment /\ UNCHANGED <<weather_vars, status_vars>>

ScenarioSpec == InitWithMosaic /\ [][ScenarioNext]_vars

\* the weather maps of one region under overlays, metadata, faults and time
WeatherNext ==
    \/ WeatherOverlay /\ UNCHANGED <<traffic_vars, status_vars>>
    \/ WeatherInfo /\ UNCHANGED <<traffic_vars, status_vars>>
    \/ Tick /\ UNCHANGED <<traffic_vars, viewer_vars, status_vars>>

WeatherSpec == Init /\ [][WeatherNext]_vars

\* the weather maps of a receiver that changes its region, with files that
\* cannot be removed
RegionNext ==
    \/ RegionOverlay /\ UNCHANGED <<traffic_vars, status_vars>>
    \/ RegionInfo /\ UNCHANGED <<traffic_vars, status_vars>>
    \/ RegionTick /\ UNCHANGED <<traffic_vars, viewer_vars, status_vars>>
    \/ Protect /\ UNCHANGED <<traffic_vars, viewer_vars, status_vars>>

RegionSpec == Init /\ [][RegionNext]_vars

\* the base map of one region whose station changes its coverage
CoverageNext ==
    \/ CoverageOverlay /\ UNCHANGED <<traffic_vars, status_vars>>
    \/ CoverageInfo /\ UNCHANGED <<traffic_vars, status_vars>>
    \/ RemoveBaseMaps /\ UNCHANGED <<traffic_vars, viewer_vars, status_vars>>

CoverageSpec == Init /\ [][CoverageNext]_vars

\* the state after construction with the world mosaic and with the
\* viewer_config of an earlier run
InitWithViewerConfig ==
    TrafficInit /\ WeatherInit /\ SavedViewerInit /\ StatusInit /\ map_file = TRUE

\* the map viewer, its timers, the user and the weather maps of one region
AnimationNext ==
    \/ AnimationInfo /\ UNCHANGED <<traffic_vars, status_vars>>
    \/ AnimationOverlay /\ UNCHANGED <<traffic_vars, status_vars>>
    \/ OpenViewer /\ UNCHANGED <<traffic_vars, weather_vars, status_vars>>
    \/ ToggleAnimate /\ UNCHANGED <<traffic_vars, weather_vars, status_vars>>
    \/ SelectMode /\ UNCHANGED <<traffic_vars, weather_vars, status_vars>>
    \/ TimerFires /\ UNCHANGED <<traffic_vars, weather_vars, status_vars>>
    \/ TimerTests /\ UNCHANGED <<traffic_vars, weather_vars, status_vars>>
    \/ TimerStep /\ UNCHANGED <<traffic_vars, weather_vars, status_vars>>

AnimationSpec == InitWithViewerConfig /\ [][AnimationNext]_vars

\* the receiver: files of any name on the traffic port and on the weather
\* port, with a map viewer the user opens
ReceiverNext ==
    \/ LotTraffic /\ UNCHANGED <<weather_vars, status_vars>>
    \/ LotOverlay /\ UNCHANGED <<traffic_vars, status_vars>>
    \/ LotInfo /\ UNCHANGED <<traffic_vars, status_vars>>
    \/ OpenViewer /\ UNCHANGED <<traffic_vars, weather_vars, status_vars>>

ReceiverSpec == InitWithMosaic /\ [][ReceiverNext]_vars

\* the receiver under files of any prefix on either port, with a map viewer
\* the user opens
RoutingNext ==
    \/ Lot /\ UNCHANGED status_vars
    \/ OpenViewer /\ UNCHANGED <<traffic_vars, weather_vars, status_vars>>

RoutingSpec == InitWithMosaic /\ [][RoutingNext]_vars

\* the map viewer and its timers while the weather maps of one region grow
\* old and the station changes its coverage
EvictionNext ==
    \/ EvictionInfo /\ UNCHANGED <<traffic_vars, status_vars>>
    \/ EvictionOverlay /\ UNCHANGED <<traffic_vars, status_vars>>
    \/ RegionTick /\ UNCHANGED <<traffic_vars, viewer_vars, status_vars>>
    \/ OpenViewer /\ UNCHANGED <<traffic_vars, weather_vars, status_vars>>
    \/ ToggleAnimate /\ UNCHANGED <<traffic_vars, weather_vars, status_vars>>
    \/ TimerFires /\ UNCHANGED <<traffic_vars, weather_vars, status_vars>>
    \/ TimerTests /\ UNCHANGED <<traffic_vars, weather_vars, status_vars>>
    \/ TimerStep /\ UNCHANGED <<traffic_vars, weather_vars, status_vars>>

EvictionSpec == InitWithMosaic /\ [][EvictionNext]_vars

\* the map viewer from its opening to its teardown, with its timers, the
\* weather maps of one region and the time that makes them old
TeardownNext ==
    \/ AnimationInfo /\ UNCHANGED <<traffic_vars, status_vars>>
    \/ EvictionOverlay /\ UNCHANGED <<traffic_vars, status_vars>>
    \/ RegionTick /\ UNCHANGED <<traffic_vars, viewer_vars, status_vars>>
    \/ OpenViewer /\ UNCHANGED <<traffic_vars, weather_vars, status_vars>>
    \/ ToggleAnimate /\ UNCHANGED <<traffic_vars, weather_vars, status_vars>>
    \/ TimerChecks /\ UNCHANGED <<traffic_vars, weather_vars, status_vars>>
    \/ TimerOpens /\ UNCHANGED <<traffic_vars, weather_vars, status_vars>>
    \/ TimerTests /\ UNCHANGED <<traffic_vars, weather_vars, status_vars>>
    \/ TimerStep /\ UNCHANGED <<traffic_vars, weather_vars, status_vars>>
    \/ CloseViewer /\ UNCHANGED <<traffic_vars, weather_vars, status_vars>>
    \/ CloseWaits /\ UNCHANGED <<traffic_vars, weather_vars, status_vars>>
    \/ Shutdown /\ UNCHANGED <<traffic_vars, weather_vars>>
    \/ ShutdownWaits /\ UNCHANGED <<traffic_vars, weather_vars>>

TeardownSpec == InitWithMosaic /\ [][TeardownNext]_vars

\* the threads of the program run: a thread of a timer that has entered
\* animate goes on to its end, and the loops of on_map_window_delete and of
\* shutdown go round
TeardownFairSpec ==
    /\ TeardownSpec
    /\ WF_vars(TimerOpens /\ UNCHANGED <<traffic_vars, weather_vars, status_vars>>)
    /\ WF_vars(TimerTests /\ UNCHANGED <<traffic_vars, weather_vars, status_vars>>)
    /\ WF_vars(TimerStep /\ UNCHANGED <<traffic_vars, weather_vars, status_vars>>)
    /\ WF_vars(CloseWaits /\ UNCHANGED <<traffic_vars, weather_vars, status_vars>>)
    /\ WF_vars(ShutdownWaits /\ UNCHANGED <<traffic_vars, weather_vars>>)

\* the player and the map viewer: the status timer runs while the radio
\* plays, the files of the weather service arrive while it plays, and the
\* viewer animates the weather maps
PlayerNext ==
    \/ Play /\ UNCHANGED <<traffic_vars, weather_vars, viewer_vars>>
    \/ Stop /\ UNCHANGED <<traffic_vars, weather_vars, viewer_vars>>
    \/ StatusFires /\ UNCHANGED <<traffic_vars, weather_vars, viewer_vars>>
    \/ StatusTests /\ UNCHANGED <<traffic_vars, weather_vars, viewer_vars>>
    \/ StatusStarts /\ UNCHANGED <<traffic_vars, weather_vars, viewer_vars>>
    \/ playing /\ AnimationInfo /\ UNCHANGED <<traffic_vars, status_vars>>
    \/ playing /\ AnimationOverlay /\ UNCHANGED <<traffic_vars, status_vars>>
    \/ OpenViewer /\ UNCHANGED <<traffic_vars, weather_vars, status_vars>>
    \/ ToggleAnimate /\ UNCHANGED <<traffic_vars, weather_vars, status_vars>>
    \/ TimerFires /\ UNCHANGED <<traffic_vars, weather_vars, status_vars>>
    \/ TimerTests /\ UNCHANGED <<traffic_vars, weather_vars, status_vars>>
    \/ TimerStep /\ UNCHANGED <<traffic_vars, weather_vars, status_vars>>

PlayerSpec == InitWithMosaic /\ [][PlayerNext]_vars

\* ------------------------------------------------------------------------
\* Traffic map: properties
\* ------------------------------------------------------------------------

\* all nine entries of the grid hold the same timestamp, which is not 0
GridComplete ==
    /\ map_tiles[0][0] # 0
    /\ \A i \in TileRange : \A j \in TileRange : map_tiles[i][j] = map_tiles[0][0]

\* the number of cells of the grid that hold a timestamp
TilesPlaced ==
    Cardinality({c \in TileRange \X TileRange : map_tiles[c[1]][c[2]] # 0})

\* C1: after every call of process_traffic_map that places a tile (every call
\* but one the guard skips as a duplicate), the completion branch has run and
\* traffic_map.png was written if and only if all nine entries of the grid
\* hold the same non-zero timestamp.
C1_CompletionExact ==
    traffic_out \in {"pending", "complete", "raised"} =>
        ((traffic_out = "complete") <=> GridComplete)

\* C2: in the scenario of nine decodable fragments of one generation, one per
\* cell, arriving in any order from the empty grid, traffic_map.png is
\* written while the ninth fragment is processed and not before: the last
\* call wrote the file exactly when it placed the ninth tile, and the file
\* exists exactly when nine tiles are placed.
C2_OneWriteAfterNinth ==
    /\ (traffic_out = "complete") <=> (TilesPlaced = 9)
    /\ traffic_png <=> (TilesPlaced = 9)

\* the ninth fragment of the scenario has been processed
C2_Witness ==
    TilesPlaced = 9 /\ traffic_out = "complete" /\ traffic_png

\* C3: a call of process_traffic_map for a position whose grid entry already
\* equals the fragment's timestamp changes nothing: grid, canvas and
\* traffic_map.png are as before, whatever the payload, and the completion
\* branch (with its notification) does not run.
C3_IdempotentPlacement ==
    [][\A row \in 1..3, col \in 1..3, m \in TrafficMinutes :
         \A data \in TilePayloads(row, col, Timestamp(m)) :
             (/\ map_tiles[row - 1][col - 1] = Timestamp(m)
              /\ process_traffic_map(row, col, m, data))
             => /\ UNCHANGED <<map_tiles, traffic_map, traffic_png>>
                /\ traffic_out' = "dup"]_vars

\* a duplicate has been skipped at a cell whose canvas differs from the
\* picture of the cell's generation, so that pasting again would show
C3_Witness ==
    /\ traffic_out = "dup"
    /\ \E i \in TileRange, j \in TileRange :
           /\ map_tiles[i][j] # 0
           /\ traffic_map[i][j] # TilePicture(map_tiles[i][j])

\* C32: when process_traffic_map has run for a fragment, then for every
\* second fragment: if it is for another position, the grid after the two
\* is the grid the two leave in the other order; if it is for the same
\* position with another timestamp, the position holds the timestamp of the
\* second after the two, and that of the first in the other order.
C32_PlacementOrder ==
    [][\A row \in 1..3, col \in 1..3, m \in TrafficMinutes :
         \A data \in TilePayloads(row, col, Timestamp(m)) :
             process_traffic_map(row, col, m, data)
             => \A row2 \in 1..3, col2 \in 1..3, m2 \in TrafficMinutes :
                    /\ <<row2, col2>> # <<row, col>>
                       => grid_after(map_tiles', row2, col2, m2)
                              = grid_after(grid_after(map_tiles, row2, col2, m2),
                                           row, col, m)
                    /\ (<<row2, col2>> = <<row, col>> /\ m2 # m)
                       => /\ grid_after(map_tiles', row2, col2, m2)[row - 1][col - 1]
                                 = Timestamp(m2)
                          /\ grid_after(grid_after(map_tiles, row2, col2, m2),
                                        row, col, m)[row - 1][col - 1]
                                 = Timestamp(m)]_vars

\* a fragment has been placed at a position that held the timestamp of
\* another generation, while another position holds a third value
C32_Witness ==
    /\ traffic_out \in {"pending", "raised"}
    /\ \E i, j, k, l \in TileRange :
           /\ <<i, j>> # <<k, l>>
           /\ map_tiles[i][j] = Timestamp(1)
           /\ map_tiles[k][l] = Timestamp(2)
    /\ \E i, j \in TileRange :
           traffic_map[i][j] \notin {White, TilePicture(map_tiles[i][j])}

\* C4: when the payload of a traffic fragment fails to decode, the canvas
\* keeps its previous image at the position and the grid timestamp of the
\* position does not become the fragment's timestamp.
C4_RejectedPlacement ==
    [][\A row \in 1..3, col \in 1..3, m \in TrafficMinutes :
         (/\ map_tiles[row - 1][col - 1] # Timestamp(m)
          /\ process_traffic_map(row, col, m, BadData)
          /\ traffic_out' = "raised")
         => /\ traffic_map' = traffic_map
            /\ map_tiles'[row - 1][col - 1] # Timestamp(m)]_vars

\* ------------------------------------------------------------------------
\* Weather map: properties
\* ------------------------------------------------------------------------

\* C5: no step changes the content of a weather map file that exists before
\* and after it: a weather map, once written, is never overwritten.
C5_NeverOverwritten ==
    [][\A f \in DOMAIN weather_png :
         f \in DOMAIN weather_png' => weather_png'[f] = weather_png[f]]_vars

\* C6: a call of process_weather_overlay for the tracked region whose
\* timestamp equals map_data["weather_time"] returns without changing any
\* state, whatever its payload: the tracked data, the list and the files on
\* disk (the artifact of the first call among them) are as before.
C6_DedupOnTimestamp ==
    [][\A k \in 1..Len(RegionOrder), h \in OverlayHours :
         \A data \in RadarPictures \cup {BadData}, fault \in Faults :
             (/\ RegionOrder[k] = map_data.weather_id
              /\ map_data.weather_time = HourStamp(h)
              /\ process_weather_overlay(RegionOrder[k], h, data, fault))
             => /\ UNCHANGED <<map_data, weather_maps, weather_png, base_map_png>>
                /\ weather_out'.res = "dup"]_vars

\* an overlay has been skipped as a duplicate while the artifact of the
\* first call with its timestamp is on disk
C6_Witness ==
    /\ weather_out.res = "dup"
    /\ map_data.weather_now \in DOMAIN weather_png
    /\ path_timestamp(map_data.weather_now) = map_data.weather_time

\* C7: when a failure ends the try block of process_weather_overlay (making
\* the base map, decoding the overlay, saving), map_data["weather_time"] is
\* 0 afterwards.
C7_FailureResetsTime ==
    weather_out.res \in {"oserror", "raised"} => map_data.weather_time = 0

\* C8: the weather map that map_data["weather_now"] refers to is on disk: no
\* refresh has removed it, whatever its age.
C8_MostRecentKept ==
    map_data.weather_now # NoPath => map_data.weather_now \in DOMAIN weather_png

\* the weather map files a step starts from, with the one it writes
FilesSeen ==
    DOMAIN weather_png \cup
        (IF weather_out'.res = "ok" THEN {map_data'.weather_now} ELSE {})

\* C9: a refresh (process_weather_maps, run by a composite or by a region
\* change) removes a weather map only if now - timestamp > 12 hours, and
\* removes every such weather map but the most recent one; weather maps of
\* exactly 12 hours stay.
C9_RetentionBoundary ==
    [][weather_out'.res \in {"ok", "changed"} =>
         \A f \in FilesSeen :
             /\ f \notin DOMAIN weather_png' => now - path_timestamp(f) > Retention
             /\ (now - path_timestamp(f) > Retention /\ f # map_data'.weather_now)
                    => f \notin DOMAIN weather_png']_vars

\* the refresh of a composite at 13:00 found the weather maps of 0:00 (13
\* hours old), 2:00 (11 hours old) and 13:00 (the most recent) and removed
\* the one of 0:00 only
C9_Witness ==
    /\ now = HourStamp(13)
    /\ weather_out.res = "ok"
    /\ map_data.weather_now = weather_map_path("LWX", HourStamp(13))
    /\ weather_out.deleted = {weather_map_path("LWX", HourStamp(0))}
    /\ DOMAIN weather_png =
           {weather_map_path("LWX", HourStamp(2)), weather_map_path("LWX", HourStamp(13))}

\* C10: self.weather_maps is in ascending order of timestamp.
C10_ListAscending ==
    \A k \in 1..Len(weather_maps), l \in 1..Len(weather_maps) :
        k < l => path_timestamp(weather_maps[k]) < path_timestamp(weather_maps[l])

\* ------------------------------------------------------------------------
\* Weather map cache: properties
\* ------------------------------------------------------------------------

\* the weather map files of the tracked region that are within the
\* retention window
LiveFiles ==
    {f \in DOMAIN weather_png :
        path_id(f) = map_data.weather_id /\ ~is_old(now, path_timestamp(f))}

\* the items of self.weather_maps
Listed == {weather_maps[k] : k \in 1..Len(weather_maps)}

\* C11: after every refresh (process_weather_maps run by a composite or by
\* a region change), self.weather_maps holds, once each, the weather map
\* files on disk of the tracked region that are within the retention
\* window, and nothing else; and the refresh has removed no file that is
\* within the retention window, of whatever region.
C11_ListExact ==
    weather_out.res \in {"ok", "changed"} =>
        /\ Cardinality(Listed) = Len(weather_maps)
        /\ Listed = LiveFiles
        /\ \A f \in weather_out.deleted : is_old(now, path_timestamp(f))

\* C12: after a refresh, calling process_weather_maps again with the same
\* files and the same clock leaves self.weather_maps as it is, in the same
\* order, and removes no file.
C12_RefreshIdempotent ==
    weather_out.res \in {"ok", "changed"} =>
        LET again == process_weather_maps(weather_maps, weather_png,
                                          map_data.weather_id, undeletable)
        IN /\ again.maps = weather_maps
           /\ again.disk = weather_png

\* a refresh has removed a file and has left a list that is not empty
C12_Witness ==
    /\ weather_out.res = "ok"
    /\ weather_out.deleted # {}
    /\ weather_maps # <<>>

\* the weather map files past the retention window that are on disk
OldFiles == {f \in DOMAIN weather_png : is_old(now, path_timestamp(f))}

\* C13: after a refresh during which os.remove failed for a file past the
\* retention window, every other file past the window is removed and every
\* file of the tracked region within the window is listed: the scan went on
\* after the failure.
C13_DeleteFailureSkipped ==
    (weather_out.res \in {"ok", "changed"} /\ OldFiles \cap undeletable # {}) =>
        /\ OldFiles \subseteq undeletable
        /\ LiveFiles \subseteq Listed

\* os.remove has failed for the first file of the scan, and the scan has
\* removed a later file and has listed a later file
C13_Witness ==
    /\ weather_out.res = "ok"
    /\ weather_map_path("LWX", HourStamp(0)) \in OldFiles \cap undeletable
    /\ weather_out.deleted # {}
    /\ LiveFiles # {}
    /\ LiveFiles \subseteq Listed

\* C24: after process_weather_info has received metadata whose id or
\* bounding box differs from the tracked one, the tracked region is the new
\* one and self.weather_maps holds weather maps of the new region id only.
C24_RegionChangeInvalidates ==
    weather_out.res \in {"changed", "info_raised"} =>
        \A f \in Listed : path_id(f) = map_data.weather_id

\* ------------------------------------------------------------------------
\* Base map: properties
\* ------------------------------------------------------------------------

C15_PlaceholderWhenNoMosaic ==
    [][/\ \A weather_id \in TrackedRegions, weather_pos \in AllBoxes,
             fault \in {"none", "blank_size"} :
             (/\ ~map_file
              /\ map_data.weather_id # weather_id \/ map_data.weather_pos # weather_pos
              /\ process_weather_info(weather_id, weather_pos, fault))
             => /\ weather_out'.res = "changed"
                /\ weather_id \in DOMAIN base_map_png'
                /\ base_map_png'[weather_id][1] = "blank"
       /\ \A id \in TrackedRegions, h \in RegionHours,
             fault \in {"none", "blank_size"} :
             (/\ ~map_file
              /\ id = map_data.weather_id
              /\ map_data.weather_time # HourStamp(h)
              /\ process_weather_overlay(id, h, <<"radar", 1>>, fault))
             => /\ weather_out'.res = "ok"
                /\ map_data'.weather_now = weather_map_path(id, HourStamp(h))]_vars

\* ------------------------------------------------------------------------
\* Receiver: properties
\* ------------------------------------------------------------------------

\* C22: no handler of the map files is left by an exception: not
\* process_traffic_map, not process_weather_overlay, not
\* process_weather_info, whatever the name, the payload and the disk.
C22_NoErrorEscapes ==
    /\ traffic_out \notin {"raised", "value_error"}
    /\ weather_out.res \notin {"raised", "info_raised", "value_error", "parse_error"}

\* C23: a file whose name or content is not as the handler expects it
\* (another prefix, a position outside 1..3, a date part of another form,
\* digits that are no date, a metadata line that does not match or is not
\* there) changes nothing: the grid, the canvas and traffic_map.png, the
\* tracked region, weather_time, weather_now, the list and the files on disk
\* are as before.
C23_MalformedIgnored ==
    [][/\ <<map_tiles, traffic_map, traffic_png>>' # <<map_tiles, traffic_map, traffic_png>>
          => \A name \in MalformedTileNames :
                 \A data \in TilePayloads(name.row, name.col, Timestamp(name.date.at)) :
                     ~(callback_traffic(name, data) /\ UNCHANGED weather_vars)
       /\ <<map_data, weather_maps, weather_png, base_map_png>>'
              # <<map_data, weather_maps, weather_png, base_map_png>>
          => /\ \A name \in MalformedOverlayNames,
                   data \in {<<"radar", 1>>, BadData}, fault \in OverlayFaults :
                     ~(callback_overlay(name, data, fault) /\ UNCHANGED traffic_vars)
             /\ \A info \in MalformedInfoFiles, fault \in InfoFaults :
                     ~(process_info_file(info, fault) /\ UNCHANGED traffic_vars)]_vars

\* a tile name whose digits are no date and a DWRI_ file with a line that
\* does not match have arrived while tiles were placed and weather maps
\* were listed
C23_Witness ==
    /\ traffic_out = "value_error"
    /\ weather_out.res = "parse_error"
    /\ TilesPlaced > 0
    /\ weather_maps # <<>>
    /\ map_data.weather_now \in DOMAIN weather_png

\* C25: updated() of the viewer is called only when a map was produced: a
\* file of the traffic port changes the viewer only if its placement has
\* completed the grid (not if it is a duplicate, is rejected or leaves the
\* grid incomplete), a file of the weather port only if its composite has
\* succeeded; and a step in which the viewer records a notification is a
\* placement that completed the grid and wrote traffic_map.png, or a
\* composite that succeeded.
C25_NotifiedOnlyOnArtifact ==
    [][/\ viewer_vars' # viewer_vars
          => /\ \A name \in TileNames \cup MalformedTileNames :
                  \A data \in TilePayloads(name.row, name.col, Timestamp(name.date.at)) :
                      (UNCHANGED weather_vars /\ callback_traffic(name, data))
                      => traffic_out' = "complete" /\ GridComplete'
             /\ \A name \in OverlayNames \cup MalformedOverlayNames,
                   data \in {<<"radar", 1>>, BadData}, fault \in OverlayFaults :
                      (UNCHANGED traffic_vars /\ callback_overlay(name, data, fault))
                      => weather_out'.res = "ok"
       /\ (viewer_out'.op = "updated" /\ viewer_out' # viewer_out)
          => \/ /\ traffic_out' = "complete"
                /\ GridComplete'
                /\ traffic_png'
                /\ UNCHANGED weather_vars
             \/ /\ weather_out'.res = "ok"
                /\ map_data'.weather_time # map_data.weather_time
                /\ UNCHANGED traffic_vars]_vars

\* the viewer is open and its last operation is a notification, the traffic
\* map is complete, and since then a composite has failed without a
\* notification
C25_Witness ==
    /\ map_viewer.state = "open"
    /\ viewer_out.op = "updated"
    /\ traffic_out = "complete"
    /\ weather_out.res = "oserror"

\* ------------------------------------------------------------------------
\* Map viewer: properties
\* ------------------------------------------------------------------------

\* self.weather_maps of the viewer
ViewerList == ViewerMaps(map_viewer, weather_maps)

\* the timers that wait for their interval to pass
PendingTimers == {t \in TimerIds : timers[t].st = "pending"}

\* C16: every step of animate that renders advances map_index by one; when
\* the advanced index reaches the length of the list it becomes 0 and the
\* next timer has the 2 second interval, otherwise the next timer has the
\* configured interval.  For a list of three weather maps the steps from
\* index 0 and 1 use the configured interval and the step from index 2, the
\* third, uses the 2 second interval and returns to index 0.
C16_Wraparound ==
    [][(/\ \E t \in TimerIds : timers[t].st = "go"
        /\ timers' # timers
        /\ viewer_out'.op = "step"
        /\ viewer_out'.rendered) =>
          IF map_viewer.map_index + 1 >= Len(ViewerList)
          THEN map_viewer'.map_index = 0 /\ viewer_out'.interval = "long"
          ELSE /\ map_viewer'.map_index = map_viewer.map_index + 1
               /\ viewer_out'.interval = "speed"]_vars

\* the third step over a list of three weather maps has shown the last one,
\* has returned to index 0 and has started the timer of 2 seconds
C16_Witness ==
    /\ Len(ViewerList) = 3
    /\ viewer_out.op = "step"
    /\ viewer_out.rendered
    /\ viewer_out.interval = "long"
    /\ map_viewer.map_index = 0
    /\ map_viewer.img_map = ViewerList[3]

\* C17: at most one timer of the viewer waits for its interval to pass.
C17_OnePendingStep == Cardinality(PendingTimers) <= 1

\* C18: when the user switches the animation off while it plays (animate on,
\* weather mode), on_chk_animate_toggled leaves the scheduler stopped, no
\* timer waiting, map_index at the last position of the list and the most
\* recent weather map in the window.
C18_StopShowsMostRecent ==
    [][(/\ Playing(map_viewer)
        /\ map_viewer'.config.animate # map_viewer.config.animate
        /\ viewer_out'.op = "stop") =>
          /\ ~Playing(map_viewer')
          /\ map_viewer'.animate_timer = None
          /\ {t \in TimerIds : timers'[t].st = "pending"} = {}
          /\ map_viewer'.map_index = Len(ViewerList) - 1
          /\ map_viewer'.img_map = set_map(1, Here)]_vars

\* the viewer as on_chk_animate_toggled leaves it when the check button is
\* switched off, and as a second call leaves it
StoppedOnce == on_chk_animate_toggled(map_viewer, timers, FALSE, Here)

StoppedTwice == on_chk_animate_toggled(StoppedOnce.v, StoppedOnce.ts, FALSE, Here)

\* C19: the stop branch of on_chk_animate_toggled run a second time leaves
\* the viewer and the timers as the first run left them and raises nothing;
\* and once the scheduler is not playing and the steps in flight have
\* finished, no step of animate renders a frame until it plays again.
C19_StopIdempotentAndFinal ==
    /\ map_viewer.state = "open" =>
           /\ StoppedTwice.v = StoppedOnce.v
           /\ StoppedTwice.ts = StoppedOnce.ts
           /\ ~StoppedTwice.raised
    /\ ~(viewer_out.was_quiet /\ viewer_out.op = "step" /\ viewer_out.rendered)

\* a timer that was left waiting fired after the scheduler had stopped and
\* the steps in flight had finished, and its step rendered nothing
C19_Witness ==
    /\ map_viewer.state = "open"
    /\ viewer_out.was_quiet
    /\ viewer_out.op = "step"
    /\ ~viewer_out.rendered

\* C20: when updated() runs in weather mode while the scheduler plays, it
\* puts no picture into the window; when the scheduler is stopped, it shows
\* the most recent weather map.
C20_UpdateRespectsPlaying ==
    (viewer_out.op = "updated" /\ map_viewer.config.mode = 1) =>
        IF Playing(map_viewer)
        THEN ~viewer_out.rendered
        ELSE map_viewer.img_map = set_map(1, Here)

\* C21: a step of animate that finds the list empty, or the file at
\* map_index not on disk, leaves the scheduler stopped and no timer
\* waiting, and puts into the window nothing but what the stop branch of
\* on_chk_animate_toggled shows (the most recent weather map, or the stock
\* picture if that is missing).
C21_MissingFileStops ==
    [][(/\ viewer_out'.op \in {"not_found", "not_found_off"}
        /\ timers' # timers
        /\ \E t \in PendingTimers :
               animate_load(map_viewer, timers, t, Here).v = map_viewer')
       => /\ ~Playing(map_viewer')
          /\ {t \in TimerIds : timers'[t].st = "pending"} = {}
          /\ map_viewer'.img_map \in {map_viewer.img_map, set_map(1, Here)}]_vars

\* C26: at most one step of animate is between the loading of its picture
\* and the end of the function: animate_busy keeps a second step from
\* loading a picture while the picture of a first one waits to be shown.
C26_BusyGuard == Cardinality(InFlight(timers)) <= 1

\* C29: no read of self.weather_maps by index raises IndexError, neither in
\* animate nor in on_chk_scale_toggled while the animation is on.
C29_IndexInBounds == viewer_out.op \notin {"index_error", "open_raised"}

\* C30: after every notification of the viewer (updated()), the list the
\* viewer animates is the list of the main program as it is then.
C30_ListFollowsCache == viewer_out.op = "updated" => ViewerList = weather_maps


\* C27: once on_map_window_delete or the teardown of shutdown has returned,
\* no timer of the viewer waits and no thread of a timer is inside animate,
\* however the teardown and a step of animate have interleaved.
C27_NoCallbackAfterTeardown ==
    map_viewer.state \in {"closed", "shut"}
        => PendingTimers = {} /\ InFlight(timers) = {}

C31_OneCallbackAtATime ==
    Cardinality(InFlight(timers)) + Cardinality(StatusInFlight(status_timers)) <= 1

\* C33: when the weather map composited last is of another region than the
\* tracked one (the tracked region has changed since), an overlay for the
\* tracked region is composited even if its timestamp is the one composited
\* last: it is not skipped as a duplicate.
C33_DedupPerRegion ==
    [][\A id \in AllRegions, h \in RegionHours :
         (/\ id = map_data.weather_id
          /\ map_data.weather_time = HourStamp(h)
          /\ map_data.weather_now # NoPath
          /\ path_id(map_data.weather_now) # id
          /\ process_weather_overlay(id, h, <<"radar", 1>>, "none")
          /\ UNCHANGED <<map_file, now, undeletable>>)
         => /\ weather_out'.res = "ok"
            /\ map_data'.weather_now = weather_map_path(id, HourStamp(h))]_vars

\* C35: map_data["weather_now"] is empty or names a weather map of the
\* tracked region, in every state.
C35_MostRecentOfTrackedRegion ==
    \/ map_data.weather_now = NoPath
    \/ path_id(map_data.weather_now) = map_data.weather_id

\* C34: when process_traffic_map has written traffic_map.png, every cell of
\* the canvas holds the picture of the fragment that gave the cell its
\* timestamp: the mosaic written is nine tiles of one generation.
C34_MosaicOfOneGeneration ==
    traffic_out = "complete"
        => \A i \in TileRange, j \in TileRange :
               traffic_map[i][j] = TilePicture(map_tiles[i][j])

\* C36: a radar overlay whose name declares another region than the tracked
\* one changes nothing: no step that changes the tracked data
\* (weather_time, weather_now among them), the list, the files on disk or
\* the viewer is the arrival of such an overlay.
C36_WrongRegionRejected ==
    [][(\/ <<map_data, weather_maps, weather_png, base_map_png>>'
               # <<map_data, weather_maps, weather_png, base_map_png>>
        \/ viewer_vars' # viewer_vars)
       => \A name \in OverlayNames, data \in {<<"radar", 1>>, BadData},
             fault \in OverlayFaults :
              name.id # map_data.weather_id
              => ~(callback_overlay(name, data, fault) /\ UNCHANGED traffic_vars)]_vars

\* an overlay of another region has been rejected while a weather map of
\* the tracked region was on disk and the viewer was open
C36_Witness ==
    /\ weather_out.res = "wrong_id"
    /\ map_data.weather_now \in DOMAIN weather_png
    /\ weather_maps # <<>>
    /\ map_viewer.state = "open"

\* C37: while the viewer is in traffic mode (on_rad_map_toggled has shown
\* the traffic map), a thread of a timer that runs animate to its end puts
\* no picture into the window and starts no timer, also when it had begun
\* its step before the mode was switched.
C37_TrafficModeNotAnimated ==
    [][(/\ map_viewer.state = "open"
        /\ map_viewer.config.mode = 0
        /\ timers' # timers
        /\ viewer_out'.op = "step")
       => /\ ~viewer_out'.rendered
          /\ viewer_out'.interval = "none"
          /\ map_viewer'.img_map = map_viewer.img_map
          /\ {t \in TimerIds : timers'[t].st = "pending"} \subseteq PendingTimers]_vars

\* a handler of the open window starts the animation: the scheduler was not
\* playing and is playing after the step
Starts == map_viewer.state = "open" /\ ~Playing(map_viewer) /\ Playing(map_viewer')

\* C38 as stated: every step that starts the animation (the check button
\* switched on in weather mode, the weather map selected with animate on)
\* starts a timer with the configured interval, and that timer waits.
C38_StartAfterStepInterval ==
    [][Starts => /\ viewer_out'.interval = "speed"
                 /\ map_viewer'.animate_timer # None
                 /\ timers'[map_viewer'.animate_timer].st = "pending"]_vars

\* C38: a step that starts the animation leaves the scheduler playing with
\* a timer referenced by animate_timer: the check button switched on starts
\* a timer with the configured interval; the weather map selected with
\* animate on starts a timer with the interval 0.05 s if animate_timer was
\* None, and no timer if a timer was still referenced.
C38_StartSchedulesFirstStep ==
    [][Starts =>
         /\ map_viewer'.animate_timer # None
         /\ \/ /\ map_viewer.config.mode = 1
               /\ viewer_out'.interval = "speed"
               /\ timers'[map_viewer'.animate_timer].st = "pending"
               /\ timers[map_viewer'.animate_timer].st = "dead"
            \/ /\ map_viewer.config.mode = 0
               /\ map_viewer.animate_timer = None
               /\ viewer_out'.interval = "first"
               /\ timers'[map_viewer'.animate_timer].st = "pending"
               /\ timers[map_viewer'.animate_timer].st = "dead"
            \/ /\ map_viewer.config.mode = 0
               /\ map_viewer.animate_timer # None
               /\ viewer_out'.interval = "none"
               /\ UNCHANGED timers]_vars

\* the weather map has been selected with animate on and the first step
\* waits
C38_Witness ==
    /\ viewer_out.op = "mode"
    /\ viewer_out.interval = "first"
    /\ Playing(map_viewer)
    /\ map_viewer.animate_timer # None
    /\ timers[map_viewer.animate_timer].st = "pending"

\* C39: a file is handed to at most one of process_traffic_map,
\* process_weather_overlay and process_weather_info, the one of its prefix:
\* a TMT_ file leaves the weather maps as they are, a DWRO_ file the traffic
\* map and the tracked region, a DWRI_ file the traffic map, weather_time
\* and weather_now, and a file of another prefix leaves the traffic map,
\* the weather maps and the viewer as they are.
C39_Routing ==
    [][\A port \in Ports, name \in RoutedNames :
         callback(port, name, FirstInfo, RoutedData(port, name), "none")
         => /\ name.prefix = "TMT_"
               => UNCHANGED <<map_data, weather_maps, weather_png, base_map_png>>
            /\ name.prefix = "DWRO_"
               => /\ UNCHANGED <<map_tiles, traffic_map, traffic_png>>
                  /\ map_data'.weather_id = map_data.weather_id
                  /\ map_data'.weather_pos = map_data.weather_pos
            /\ name.prefix = "DWRI_"
               => /\ UNCHANGED <<map_tiles, traffic_map, traffic_png>>
                  /\ map_data'.weather_time = map_data.weather_time
                  /\ map_data'.weather_now = map_data.weather_now
            /\ name.prefix = "other"
               => /\ UNCHANGED <<map_tiles, traffic_map, traffic_png>>
                  /\ UNCHANGED <<map_data, weather_maps, weather_png, base_map_png>>
                  /\ UNCHANGED viewer_vars]_vars

\* files that no handler takes have arrived on both ports while tiles were
\* placed and a weather map was listed
C39_Witness ==
    /\ traffic_out = "ignored"
    /\ weather_out.res = "ignored"
    /\ TilesPlaced > 0
    /\ weather_maps # <<>>
    /\ map_viewer.state = "open"
====
